---- MODULE Spec2Model ----
(***************************************************************************)
(* A model of src/monitoring.py: the DropboxMonitor object (the cached     *)
(* counts, the dropbox_status metric, last_query_time), the calls of       *)
(* get_status made by the scrape threads of the Prometheus HTTP server,    *)
(* parse_output run line by line, and the main thread with its three       *)
(* signal handlers and its exit_event.                                      *)
(*                                                                         *)
(* A status line is the sequence of its space-separated words; a report    *)
(* is the sequence of its lines (what str.splitlines returns).  None is    *)
(* the integer -1: the counts are Optional[int] and never negative.        *)
(***************************************************************************)
EXTENDS Integers, Sequences, FiniteSets, TLC

\* ------------------------------------------------------------------ bounds
NumThreads == 2
MaxFiles == 1
MaxLines == 3
MaxPollLines == 1
MaxElapsed == 1
MaxSignals == 2

\* ------------------------------------------------------- program constants
None == -1
min_poll_interval_sec == 5

Threads == 1..NumThreads

\* class Metric
Metrics == {"num_syncing", "num_downloading", "num_uploading"}

\* class State: the members, and the value of each
StateMembers ==
  {"State.STARTING", "State.SYNCING", "State.UP_TO_DATE", "State.NOT_RUNNING",
   "State.UNKNOWN"}

StateValue(member) ==
  CASE member = "State.STARTING" -> "starting"
    [] member = "State.SYNCING" -> "syncing"
    [] member = "State.UP_TO_DATE" -> "up to date"
    [] member = "State.NOT_RUNNING" -> "not running"
    [] member = "State.UNKNOWN" -> "unknown"

\* states=[state.value for state in State.__members__.values()]
EnumStates == <<"starting", "syncing", "up to date", "not running", "unknown">>

Signals == {"SIGHUP", "SIGINT", "SIGTERM"}

\* ------------------------------------------------------------------ state
VARIABLES
  status_enum,       \* the value of the dropbox_status metric
  num_syncing, num_downloading, num_uploading,   \* the cached counts
  last_query_time,
  clock,             \* time()
  call,              \* per scrape thread: the call it is in
  lastPoll,          \* history: the clock at the latest query_status
  mainPc,            \* the main thread's position in __main__
  exit_event,        \* Event: its flag
  eventLock,         \* the Event's lock (a Lock, not reentrant): "free", or
                     \* the frame of the main thread that holds it, "wait"
                     \* (Event.wait) or "handler" (Event.set)
  notified,          \* the waiter lock of Condition.wait has been released
  handlers,          \* the signal handlers running in the main thread, the
                     \* innermost last: the position of each
  pending,           \* signals that have arrived and whose handler has not
                     \* been called yet
  woken,             \* the arrival of a signal has interrupted the acquire
                     \* the main thread is blocked in
  delivered,         \* the number of signals delivered to a handler
  proc,              \* "running", or how the process ended
  entry,             \* history: the monitor as it was when the parse_output
                     \* called on a text directly was entered (the monitor
                     \* itself when no such call is running)
  scrape             \* history: the scrape in progress, and the report each
                     \* of its samples came from

\* ------------------------------------------------------------ status lines
ActionWords == {"Syncing", "Downloading", "Uploading"}

UpToDateLine == <<"Up", "to", "date">>
SyncingDotsLine == <<"Syncing...">>
Trailers == {<<>>, <<"(6", "secs)">>}
CountLine(action, n, trailer) == <<action, ToString(n), "files">> \o trailer
CountLines ==
  {CountLine(a, n, tr) : a \in ActionWords, n \in 0..MaxFiles, tr \in Trailers}
\* a line of other text, a blank line, a count that is not a number
OtherLines ==
  {<<"Dropbox", "isn't", "running!">>, <<>>, <<"Syncing", "many", "files">>}
Lines == {UpToDateLine, SyncingDotsLine} \cup CountLines \cup OtherLines

SeqsUpTo(S, n) == UNION {[1..k -> S] : k \in 0..n}
\* the texts handed to parse_output directly
Reports == SeqsUpTo(Lines, MaxLines)
\* what `dropbox status` prints: stdout, and whether stderr is empty
PollLines ==
  {UpToDateLine, SyncingDotsLine, CountLine("Syncing", MaxFiles, <<>>),
   <<"Dropbox", "isn't", "running!">>}
ProcessResults ==
  [stdout : SeqsUpTo(PollLines, MaxPollLines), stderr : {"", "error"}]

\* --------------------------------------------------- DropboxInterface
\* query_status: the text of stdout, or None
NoResult == [none |-> TRUE, text |-> <<>>]

QueryStatus(result) ==
  IF result.stderr # "" THEN NoResult
  ELSE IF result.stdout = <<>> THEN NoResult
  ELSE [none |-> FALSE, text |-> result.stdout]

\* `if dropbox_result:` None and the empty string are false
Truthy(r) == ~r.none /\ r.text # <<>>

\* ------------------------------------------------ prometheus_client Enum
\* Enum.state(s) is self._value = self._states.index(s): a ValueError when s
\* is not one of the strings the metric was built with
InStates(s) == \E k \in 1..Len(EnumStates) : EnumStates[k] = s

EnumStateCall(arg) == [raised |-> ~InStates(arg), value |-> arg]

\* ------------------------------------------------------ parse_output
\* \d+ and int(): a word of decimal digits and its value
IsDigits(w) == \E n \in 0..MaxFiles : ToString(n) = w
IntOf(w) == CHOOSE n \in 0..MaxFiles : ToString(n) = w

\* re.match anchors at the start only: "files" may be followed by anything
StartsWithFiles(w) == w \in {"files", "files..."}

\* self.status_matcher.match(line)
StatusMatch(line) ==
  /\ Len(line) >= 3
  /\ line[1] \in ActionWords
  /\ IsDigits(line[2])
  /\ StartsWithFiles(line[3])

\* ParseLine with the `return` of the "Up to date" branch left out: the loop
\* goes on and the code after it runs.
ParseLineNoReturn(p, line) ==
  IF line = UpToDateLine
  THEN [p EXCEPT !.state = "State.UP_TO_DATE", !.num_syncing = 0,
                 !.num_downloading = 0, !.num_uploading = 0]
  ELSE IF line = SyncingDotsLine
  THEN [p EXCEPT !.state = "State.SYNCING", !.num_syncing = None,
                 !.num_downloading = None, !.num_uploading = None]
  ELSE IF StatusMatch(line)
  THEN LET action == line[1]
           num_files == IntOf(line[2])
       IN [p EXCEPT
             !.state = "State.SYNCING",
             !.num_syncing = IF action = "Syncing" THEN num_files ELSE @,
             !.num_downloading = IF action = "Downloading" THEN num_files ELSE @,
             !.num_uploading = IF action = "Uploading" THEN num_files ELSE @]
  ELSE p

\* ParseLine keeping a running counter, as a reader of single lines would: a
\* matched count is added to the cached one and the function returns.
ParseLineRunning(p, line) ==
  IF line = UpToDateLine
  THEN [p EXCEPT !.state = "State.UP_TO_DATE", !.num_syncing = 0,
                 !.num_downloading = 0, !.num_uploading = 0,
                 !.returned = TRUE]
  ELSE IF line = SyncingDotsLine
  THEN [p EXCEPT !.state = "State.SYNCING", !.num_syncing = None,
                 !.num_downloading = None, !.num_uploading = None]
  ELSE IF StatusMatch(line)
  THEN LET action == line[1]
           num_files == IntOf(line[2])
           Add(old) == (IF old = None THEN 0 ELSE old) + num_files
       IN [p EXCEPT
             !.state = "State.SYNCING",
             !.num_syncing = IF action = "Syncing" THEN Add(@) ELSE @,
             !.num_downloading = IF action = "Downloading" THEN Add(@) ELSE @,
             !.num_uploading = IF action = "Uploading" THEN Add(@) ELSE @,
             !.returned = TRUE]
  ELSE p

\* ParseLine with the try/except around the loop instead of inside it: a
\* line that is not understood ends the function.
ParseLineAbort(p, line) ==
  IF line = UpToDateLine
  THEN [p EXCEPT !.state = "State.UP_TO_DATE", !.num_syncing = 0,
                 !.num_downloading = 0, !.num_uploading = 0,
                 !.returned = TRUE]
  ELSE IF line = SyncingDotsLine
  THEN [p EXCEPT !.state = "State.SYNCING", !.num_syncing = None,
                 !.num_downloading = None, !.num_uploading = None]
  ELSE IF StatusMatch(line)
  THEN LET action == line[1]
           num_files == IntOf(line[2])
       IN [p EXCEPT
             !.state = "State.SYNCING",
             !.num_syncing = IF action = "Syncing" THEN num_files ELSE @,
             !.num_downloading = IF action = "Downloading" THEN num_files ELSE @,
             !.num_uploading = IF action = "Uploading" THEN num_files ELSE @]
  ELSE [p EXCEPT !.returned = TRUE]

\* ParseLine that knows the line "Dropbox isn't running!" and puts the
\* declared, unused State.NOT_RUNNING to use
ParseLineNotRunning(p, line) ==
  IF line = UpToDateLine
  THEN [p EXCEPT !.state = "State.UP_TO_DATE", !.num_syncing = 0,
                 !.num_downloading = 0, !.num_uploading = 0,
                 !.returned = TRUE]
  ELSE IF line = SyncingDotsLine
  THEN [p EXCEPT !.state = "State.SYNCING", !.num_syncing = None,
                 !.num_downloading = None, !.num_uploading = None]
  ELSE IF StatusMatch(line)
  THEN LET action == line[1]
           num_files == IntOf(line[2])
       IN [p EXCEPT
             !.state = "State.SYNCING",
             !.num_syncing = IF action = "Syncing" THEN num_files ELSE @,
             !.num_downloading = IF action = "Downloading" THEN num_files ELSE @,
             !.num_uploading = IF action = "Uploading" THEN num_files ELSE @]
  ELSE IF line = <<"Dropbox", "isn't", "running!">>
  THEN [p EXCEPT !.state = "State.NOT_RUNNING"]
  ELSE p

\* One pass of the body of `for line in results.splitlines()`.  p holds the
\* local `state`, the three cached counts of self, and whether the function
\* has returned.
ParseLine(p, line) ==
  IF line = UpToDateLine
  THEN [p EXCEPT !.state = "State.UP_TO_DATE", !.num_syncing = 0,
                 !.num_downloading = 0, !.num_uploading = 0,
                 !.returned = TRUE]
  ELSE IF line = SyncingDotsLine
  THEN [p EXCEPT !.state = "State.SYNCING", !.num_syncing = None,
                 !.num_downloading = None, !.num_uploading = None]
  ELSE IF StatusMatch(line)
  THEN LET action == line[1]
           num_files == IntOf(line[2])
       IN [p EXCEPT
             !.state = "State.SYNCING",
             !.num_syncing = IF action = "Syncing" THEN num_files ELSE @,
             !.num_downloading = IF action = "Downloading" THEN num_files ELSE @,
             !.num_uploading = IF action = "Uploading" THEN num_files ELSE @]
  ELSE p

\* the locals num_syncing, num_downloading, num_uploading of parse_output:
\* set to None on entry and assigned nowhere else
LocalCounts ==
  [num_syncing |-> None, num_downloading |-> None, num_uploading |-> None]

\* FinishCounts writing 0 where the report showed no syncing
FinishCountsZero(state) ==
  IF state = "State.SYNCING" THEN LocalCounts
  ELSE [num_syncing |-> 0, num_downloading |-> 0, num_uploading |-> 0]

\* FinishCounts leaving the counts of a syncing report as the loop wrote
\* them: an action the report does not mention keeps its earlier count
FinishCountsKeep(state) ==
  IF state = "State.SYNCING"
  THEN [num_syncing |-> num_syncing, num_downloading |-> num_downloading,
        num_uploading |-> num_uploading]
  ELSE [num_syncing |-> None, num_downloading |-> None, num_uploading |-> None]

\* the counts written after the loop
FinishCounts(state) ==
  IF state = "State.SYNCING" THEN LocalCounts
  ELSE [num_syncing |-> None, num_downloading |-> None, num_uploading |-> None]

RECURSIVE ParseLines(_, _, _)
ParseLines(p, results, i) ==
  IF i > Len(results) \/ p.returned THEN p
  ELSE ParseLines(ParseLine(p, results[i]), results, i + 1)

\* parse_output run from start to end by one caller alone, on a monitor
\* mon = [status, num_syncing, num_downloading, num_uploading]
ParseOutput(mon, results) ==
  LET p0 == [state |-> "State.UNKNOWN", num_syncing |-> mon.num_syncing,
             num_downloading |-> mon.num_downloading,
             num_uploading |-> mon.num_uploading, returned |-> FALSE]
      p == ParseLines(p0, results, 1)
      fin == FinishCounts(p.state)
  IN IF p.returned
     THEN [status |-> mon.status, num_syncing |-> p.num_syncing,
           num_downloading |-> p.num_downloading,
           num_uploading |-> p.num_uploading]
     ELSE [status |-> EnumStateCall(StateValue(p.state)).value,
           num_syncing |-> fin.num_syncing,
           num_downloading |-> fin.num_downloading,
           num_uploading |-> fin.num_uploading]

vars ==
  <<status_enum, num_syncing, num_downloading, num_uploading, last_query_time,
    clock, call, lastPoll, mainPc, exit_event, eventLock, notified, handlers,
    pending, woken, delivered, proc, entry, scrape>>

monitor == <<status_enum, num_syncing, num_downloading, num_uploading,
             last_query_time>>
mainVars == <<mainPc, exit_event, eventLock, notified, handlers, pending,
              woken, delivered, proc>>

\* time() counts seconds since 1970: far beyond min_poll_interval_sec
BootTime == min_poll_interval_sec + 1

IdleCall ==
  [pc |-> "idle", via |-> "-", metric |-> "-", results |-> <<>>, i |-> 0,
   state |-> "-", ret |-> None]

\* the monitor as parse_output and get_status see it
Mon ==
  [status |-> status_enum, num_syncing |-> num_syncing,
   num_downloading |-> num_downloading, num_uploading |-> num_uploading]

\* no scrape in progress
NoScrape == [step |-> 0, poll |-> 0, countsSrc |-> 0, src |-> <<>>]

\* the gauges in the order __init__ registers them, which is the order a
\* scrape samples them in, after the status metric
ScrapeOrder == <<"num_syncing", "num_downloading", "num_uploading">>

\* the branches of the loop that assign the counts (lines 140-162)
WritesCounts(line) ==
  line = UpToDateLine \/ line = SyncingDotsLine \/ StatusMatch(line)

\* The history of the scrape in progress after a step of thread t.  The
\* reports are numbered within the scrape: 0 is whatever was parsed before
\* it began, k the report of its k-th query_status.  A sample is
\* float(get_status(metric)): None, like an exception of get_status, ends
\* the scrape with an error and nothing is exported.
Track(t) ==
  LET c == call[t]
  IN IF scrape.step \notin 1..3 THEN scrape
     ELSE CASE c.pc = "idle" ->
                 [scrape EXCEPT !.poll =
                    IF call'[t].pc = "query" THEN @ + 1 ELSE @]
            [] c.pc = "lines" ->
                 [scrape EXCEPT !.countsSrc =
                    IF WritesCounts(c.results[c.i]) THEN scrape.poll ELSE @]
            [] c.pc = "set_counts" -> [scrape EXCEPT !.countsSrc = scrape.poll]
            [] c.pc = "raised" -> NoScrape
            [] c.pc = "returned" ->
                 IF c.ret = None THEN NoScrape
                 ELSE [scrape EXCEPT !.src = Append(@, scrape.countsSrc),
                                     !.step = @ + 1]
            [] OTHER -> scrape

Init ==
  /\ status_enum = EnumStates[1]
  /\ num_syncing = None
  /\ num_downloading = None
  /\ num_uploading = None
  /\ last_query_time = 0
  /\ clock = BootTime
  /\ call = [t \in Threads |-> IdleCall]
  /\ lastPoll = 0
  /\ mainPc = "start"
  /\ exit_event = FALSE
  /\ eventLock = "free"
  /\ notified = FALSE
  /\ handlers = <<>>
  /\ pending = {}
  /\ woken = FALSE
  /\ delivered = 0
  /\ proc = "running"
  /\ entry = Mon
  /\ scrape = NoScrape

\* the HTTP server answers scrapes from start() until the process ends
Serving == proc = "running" /\ mainPc # "start"

\* where a call goes once parse_output is over
AfterParse(c) == IF c.via = "get_status" THEN "read" ELSE "parsed"

\* ---------------------------------------------------------- get_status
\* lines 104-106: the clock, the throttle test and the call of query_status,
\* which waits in subprocess.run until `dropbox status` has ended
GetStatus(t, metric) ==
  /\ Serving
  /\ call[t].pc = "idle"
  /\ LET now == clock
     IN IF now - last_query_time > min_poll_interval_sec
        THEN /\ lastPoll' = now
             /\ call' = [call EXCEPT ![t] =
                  [IdleCall EXCEPT !.pc = "query", !.via = "get_status",
                                   !.metric = metric]]
        ELSE /\ lastPoll' = lastPoll
             /\ call' = [call EXCEPT ![t] =
                  [IdleCall EXCEPT !.pc = "read", !.via = "get_status",
                                   !.metric = metric]]
  /\ UNCHANGED <<monitor, clock, mainVars, entry>>
  /\ scrape' = Track(t)

\* lines 106-108: query_status returns, and parse_output is entered (its
\* locals) or the else branch
QueryDone(t) ==
  /\ proc = "running"
  /\ call[t].pc = "query"
  /\ \E result \in ProcessResults :
       LET dropbox_result == QueryStatus(result)
       IN call' = [call EXCEPT ![t] =
            IF Truthy(dropbox_result)
            THEN [pc |-> "lines", via |-> "get_status",
                  metric |-> call[t].metric, results |-> dropbox_result.text,
                  i |-> 1, state |-> "State.UNKNOWN", ret |-> None]
            ELSE [call[t] EXCEPT !.pc = "failed"]]
  /\ UNCHANGED <<monitor, clock, lastPoll, mainVars, entry>>
  /\ scrape' = Track(t)

\* parse_output called on a text by a caller of its own (lines 133-136)
ParseOutputCall(t) ==
  /\ proc = "running"
  /\ call[t].pc = "idle"
  /\ \E results \in Reports :
       call' = [call EXCEPT ![t] =
         [pc |-> IF results = <<>> THEN "set_state" ELSE "lines",
          via |-> "parse_output", metric |-> "-", results |-> results,
          i |-> 1, state |-> "State.UNKNOWN", ret |-> None]]
  /\ entry' = Mon
  /\ UNCHANGED <<monitor, clock, lastPoll, mainVars,
                 scrape>>

\* lines 138-166: the next line of the report
ParseLineStep(t) ==
  /\ proc = "running"
  /\ call[t].pc = "lines"
  /\ LET c == call[t]
         p == ParseLine([state |-> c.state, num_syncing |-> num_syncing,
                         num_downloading |-> num_downloading,
                         num_uploading |-> num_uploading, returned |-> FALSE],
                        c.results[c.i])
     IN /\ num_syncing' = p.num_syncing
        /\ num_downloading' = p.num_downloading
        /\ num_uploading' = p.num_uploading
        /\ call' = [call EXCEPT ![t] =
             [c EXCEPT !.state = p.state, !.i = c.i + 1,
                       !.pc = IF p.returned THEN AfterParse(c)
                              ELSE IF c.i + 1 > Len(c.results) THEN "set_state"
                              ELSE "lines"]]
  /\ UNCHANGED <<status_enum, last_query_time, clock, lastPoll, mainVars, entry>>
  /\ scrape' = Track(t)

\* line 168
SetState(t) ==
  /\ proc = "running"
  /\ call[t].pc = "set_state"
  /\ status_enum' = EnumStateCall(StateValue(call[t].state)).value
  /\ call' = [call EXCEPT ![t].pc = "set_counts"]
  /\ UNCHANGED <<num_syncing, num_downloading, num_uploading, last_query_time,
                 clock, lastPoll, mainVars, entry>>
  /\ scrape' = Track(t)

\* lines 169-176
SetCounts(t) ==
  /\ proc = "running"
  /\ call[t].pc = "set_counts"
  /\ LET fin == FinishCounts(call[t].state)
     IN /\ num_syncing' = fin.num_syncing
        /\ num_downloading' = fin.num_downloading
        /\ num_uploading' = fin.num_uploading
  /\ call' = [call EXCEPT ![t].pc = AfterParse(call[t])]
  /\ UNCHANGED <<status_enum, last_query_time, clock, lastPoll, mainVars, entry>>
  /\ scrape' = Track(t)

\* lines 109-113: the query gave nothing
FailedQuery(t) ==
  /\ proc = "running"
  /\ call[t].pc = "failed"
  /\ LET e == EnumStateCall("State.UNKNOWN")
     IN IF e.raised
        THEN /\ call' = [call EXCEPT ![t].pc = "raised"]
             /\ UNCHANGED <<status_enum, num_syncing, num_downloading,
                            num_uploading>>
        ELSE /\ status_enum' = e.value
             /\ num_syncing' = None
             /\ num_downloading' = None
             /\ num_uploading' = None
             /\ call' = [call EXCEPT ![t].pc = "read"]
  /\ UNCHANGED <<last_query_time, clock, lastPoll, mainVars, entry>>
  /\ scrape' = Track(t)

\* lines 115-122
ReadMetric(t) ==
  /\ proc = "running"
  /\ call[t].pc = "read"
  /\ call' = [call EXCEPT ![t].pc = "returned",
                          ![t].ret =
                            CASE call[t].metric = "num_syncing" -> num_syncing
                              [] call[t].metric = "num_downloading" -> num_downloading
                              [] call[t].metric = "num_uploading" -> num_uploading
                              [] OTHER -> None]
  /\ UNCHANGED <<monitor, clock, lastPoll, mainVars, entry>>
  /\ scrape' = Track(t)

\* the caller takes the result (or the exception) and the thread is free
Return(t) ==
  /\ proc = "running"
  /\ call[t].pc \in {"returned", "raised", "parsed"}
  /\ call' = [call EXCEPT ![t] = IdleCall]
  /\ entry' = IF call[t].pc = "parsed" THEN Mon ELSE entry
  /\ UNCHANGED <<monitor, clock, lastPoll, mainVars>>
  /\ scrape' = Track(t)

Tick ==
  /\ proc = "running"
  /\ clock < BootTime + MaxElapsed
  /\ clock' = clock + 1
  /\ UNCHANGED <<monitor, call, lastPoll, mainVars, entry,
                 scrape>>

\* -------------------------------------------------------------- __main__
\* the signals whose handler signal.signal has installed
Installed ==
  CASE mainPc \in {"start", "sighup", "final"} -> {}
    [] mainPc = "sigint" -> {"SIGHUP"}
    [] mainPc = "sigterm" -> {"SIGHUP", "SIGINT"}
    [] OTHER -> Signals

\* the main thread is inside exit_event.wait() (line 214)
InWait == mainPc \in {"wait", "locked", "blocked", "woke"}

\* the main thread is past exit_event.wait(): at line 215, or in the end of
\* the interpreter
AfterWait == mainPc \in {"returned", "logged", "final"}

\* The main thread is blocked in the acquire of a lock: in the
\* waiter.acquire() of Condition.wait, or, in a handler, in the `with
\* self._cond` of Event.set while the lock is held.  The holder is a frame of
\* the main thread itself, below the handler, which does not run before the
\* handler has returned.
MainBlocked ==
  IF handlers = <<>> THEN mainPc = "blocked" /\ ~notified
  ELSE handlers[Len(handlers)] = "enter" /\ eventLock # "free"

\* the signal numbers: pending handlers are called in this order
SigNum(sig) ==
  CASE sig = "SIGHUP" -> 1 [] sig = "SIGINT" -> 2 [] sig = "SIGTERM" -> 15

\* lines 207-209
Start ==
  /\ proc = "running"
  /\ mainPc = "start"
  /\ handlers = <<>>
  /\ mainPc' = "sighup"
  /\ UNCHANGED <<monitor, clock, call, lastPoll, exit_event, eventLock,
                 notified, handlers, pending, woken, delivered, proc,
                 entry, scrape>>

\* lines 210-212, one signal.signal each
InstallHandler ==
  /\ proc = "running"
  /\ mainPc \in {"sighup", "sigint", "sigterm"}
  /\ handlers = <<>>
  /\ mainPc' = CASE mainPc = "sighup" -> "sigint"
                 [] mainPc = "sigint" -> "sigterm"
                 [] mainPc = "sigterm" -> "wait"
  /\ UNCHANGED <<monitor, clock, call, lastPoll, exit_event, eventLock,
                 notified, handlers, pending, woken, delivered, proc,
                 entry, scrape>>

\* line 214, Event.wait: `with self._cond` takes the Event's lock
WaitEnter ==
  /\ proc = "running"
  /\ mainPc = "wait"
  /\ handlers = <<>>
  /\ eventLock = "free"
  /\ eventLock' = "wait"
  /\ mainPc' = "locked"
  /\ UNCHANGED <<monitor, clock, call, lastPoll, exit_event, notified, handlers,
                 pending, woken, delivered, proc, entry, scrape>>

\* Event.wait reads the flag under the lock: set, it returns; not set, it
\* calls Condition.wait, which releases the lock and blocks in
\* waiter.acquire()
WaitTest ==
  /\ proc = "running"
  /\ mainPc = "locked"
  /\ handlers = <<>>
  /\ IF exit_event
     THEN mainPc' = "woke" /\ eventLock' = eventLock
     ELSE mainPc' = "blocked" /\ eventLock' = "free"
  /\ UNCHANGED <<monitor, clock, call, lastPoll, exit_event, notified, handlers,
                 pending, woken, delivered, proc, entry, scrape>>

\* Condition.wait: the waiter lock has been released by notify_all;
\* _acquire_restore takes the Event's lock again
WaitWake ==
  /\ proc = "running"
  /\ mainPc = "blocked"
  /\ handlers = <<>>
  /\ notified
  /\ eventLock = "free"
  /\ eventLock' = "wait"
  /\ mainPc' = "woke"
  /\ UNCHANGED <<monitor, clock, call, lastPoll, exit_event, notified, handlers,
                 pending, woken, delivered, proc, entry, scrape>>

\* line 214: Event.wait leaves its with-block, which releases the Event's
\* lock, and returns
WaitReturn ==
  /\ proc = "running"
  /\ mainPc = "woke"
  /\ handlers = <<>>
  /\ eventLock' = "free"
  /\ mainPc' = "returned"
  /\ UNCHANGED <<monitor, clock, call, lastPoll, exit_event, notified, handlers,
                 pending, woken, delivered, proc, entry, scrape>>

\* line 215: the message is logged
StopGracefully ==
  /\ proc = "running"
  /\ mainPc = "returned"
  /\ handlers = <<>>
  /\ mainPc' = "logged"
  /\ UNCHANGED <<monitor, clock, call, lastPoll, exit_event, eventLock,
                 notified, handlers, pending, woken, delivered, proc, entry,
                 scrape>>

\* the script is over and the interpreter finalizes: it puts back the
\* handlers the signals had when it started, the default ones
Finalize ==
  /\ proc = "running"
  /\ mainPc = "logged"
  /\ handlers = <<>>
  /\ mainPc' = "final"
  /\ UNCHANGED <<monitor, clock, call, lastPoll, exit_event, eventLock,
                 notified, handlers, pending, woken, delivered, proc, entry,
                 scrape>>

\* the main thread ends, and with it the process (the server's threads are
\* daemon threads)
Exit ==
  /\ proc = "running"
  /\ mainPc = "final"
  /\ mainPc' = "done"
  /\ proc' = "exit 0"
  /\ UNCHANGED <<monitor, clock, call, lastPoll, exit_event, eventLock,
                 notified, handlers, pending, woken, delivered, entry, scrape>>

\* The main thread calls the handler of a pending signal, the lambda of
\* lines 210-212, on top of what it is doing: between two bytecodes, or
\* when the signal has interrupted the acquire it is blocked in.  The
\* finalizing interpreter calls no handler.
RunHandler ==
  /\ proc = "running"
  /\ mainPc # "final"
  /\ pending # {}
  /\ ~MainBlocked \/ woken
  /\ LET sig == CHOOSE s \in pending : \A o \in pending : SigNum(s) <= SigNum(o)
     IN /\ pending' = pending \ {sig}
        /\ woken' = (woken /\ pending' # {})
  /\ handlers' = Append(handlers, "enter")
  /\ UNCHANGED <<monitor, clock, call, lastPoll, mainPc, exit_event, eventLock,
                 notified, delivered, proc, entry, scrape>>

\* Event.set in the innermost handler: `with self._cond` takes the lock
HandlerEnter ==
  /\ proc = "running"
  /\ handlers # <<>>
  /\ handlers[Len(handlers)] = "enter"
  /\ eventLock = "free"
  /\ eventLock' = "handler"
  /\ handlers' = [handlers EXCEPT ![Len(handlers)] = "locked"]
  /\ UNCHANGED <<monitor, clock, call, lastPoll, mainPc, exit_event, notified,
                 pending, woken, delivered, proc, entry, scrape>>

\* Event.set: self._flag = True
HandlerSet ==
  /\ proc = "running"
  /\ handlers # <<>>
  /\ handlers[Len(handlers)] = "locked"
  /\ exit_event' = TRUE
  /\ handlers' = [handlers EXCEPT ![Len(handlers)] = "notify"]
  /\ UNCHANGED <<monitor, clock, call, lastPoll, mainPc, eventLock, notified,
                 pending, woken, delivered, proc, entry, scrape>>

\* Event.set: notify_all releases the waiter lock of a Condition.wait
HandlerNotify ==
  /\ proc = "running"
  /\ handlers # <<>>
  /\ handlers[Len(handlers)] = "notify"
  /\ notified' = (notified \/ mainPc = "blocked")
  /\ handlers' = [handlers EXCEPT ![Len(handlers)] = "release"]
  /\ UNCHANGED <<monitor, clock, call, lastPoll, mainPc, exit_event, eventLock,
                 pending, woken, delivered, proc, entry, scrape>>

\* Event.set: the with-block releases the Event's lock
HandlerRelease ==
  /\ proc = "running"
  /\ handlers # <<>>
  /\ handlers[Len(handlers)] = "release"
  /\ eventLock' = "free"
  /\ handlers' = [handlers EXCEPT ![Len(handlers)] = "return"]
  /\ UNCHANGED <<monitor, clock, call, lastPoll, mainPc, exit_event, notified,
                 pending, woken, delivered, proc, entry, scrape>>

\* Event.set and the lambda return
HandlerReturn ==
  /\ proc = "running"
  /\ handlers # <<>>
  /\ handlers[Len(handlers)] = "return"
  /\ handlers' = SubSeq(handlers, 1, Len(handlers) - 1)
  /\ UNCHANGED <<monitor, clock, call, lastPoll, mainPc, exit_event, eventLock,
                 notified, pending, woken, delivered, proc, entry, scrape>>

\* What a signal does where no handler of lines 210-212 is installed.  While
\* the script runs, Python's own handler of SIGINT raises KeyboardInterrupt;
\* once the interpreter has put the default handlers back, every signal
\* kills.
DefaultDisposition(sig) ==
  IF sig = "SIGINT" /\ mainPc # "final" THEN "KeyboardInterrupt" ELSE "killed"

\* A signal reaches the process.  With a handler installed it is noted as
\* pending.  It interrupts the acquire the main thread is blocked in when
\* it is the main thread that takes it; taken by another thread of the
\* process (the server's), it is noted and the main thread stays blocked.
\* A signal that arrives just before the main thread blocks does not
\* interrupt either.
Signal(sig) ==
  /\ proc = "running"
  /\ IF sig \in Installed
     THEN /\ delivered < MaxSignals
          /\ delivered' = delivered + 1
          /\ pending' = pending \cup {sig}
          /\ \E taken \in {"main", "other"} :
               woken' = (woken \/ (taken = "main" /\ MainBlocked))
          /\ proc' = proc
     ELSE /\ proc' = DefaultDisposition(sig)
          /\ UNCHANGED <<pending, woken, delivered>>
  /\ UNCHANGED <<monitor, clock, call, lastPoll, mainPc, exit_event, eventLock,
                 notified, handlers, entry, scrape>>

\* one step of the main thread
MainStep ==
  \/ Start
  \/ InstallHandler
  \/ WaitEnter
  \/ WaitTest
  \/ WaitWake
  \/ WaitReturn
  \/ StopGracefully
  \/ Finalize
  \/ Exit
  \/ RunHandler
  \/ HandlerEnter
  \/ HandlerSet
  \/ HandlerNotify
  \/ HandlerRelease
  \/ HandlerReturn

\* one step of scrape thread t
ThreadStep(t) ==
  \/ \E m \in Metrics : GetStatus(t, m)
  \/ QueryDone(t)
  \/ ParseLineStep(t)
  \/ SetState(t)
  \/ SetCounts(t)
  \/ FailedQuery(t)
  \/ ReadMetric(t)
  \/ Return(t)

Next ==
  \/ \E t \in Threads : ThreadStep(t)
  \/ Tick
  \/ MainStep
  \/ \E sig \in Signals : Signal(sig)

\* the process: the scrape threads, the clock, the main thread, the signals
Spec == Init /\ [][Next]_vars

\* the server once started, with no signal: the scrape threads and the clock
NextServe ==
  \/ Start
  \/ \E t \in Threads : ThreadStep(t)
  \/ Tick

ServeSpec == Init /\ [][NextServe]_vars

\* one scrape thread calling get_status, call after call, for any metric
NextPolls ==
  \/ Start
  \/ ThreadStep(1)
  \/ Tick

PollSpec == Init /\ [][NextPolls]_vars

\* The main thread beside one scrape thread.  The main thread, once it can
\* run, is scheduled: weak fairness of its steps.
NextMain ==
  \/ ThreadStep(1)
  \/ Tick
  \/ MainStep
  \/ \E sig \in Signals : Signal(sig)

FairSpec == Init /\ [][NextMain]_vars /\ WF_vars(MainStep)

\* parse_output alone: one caller hands it report after report
NextParse ==
  \/ ParseOutputCall(1)
  \/ ParseLineStep(1)
  \/ SetState(1)
  \/ SetCounts(1)
  \/ Return(1)

ParseSpec == Init /\ [][NextParse]_vars

\* A scrape begins: the exposition reads the status metric first, the
\* value some report before the scrape left there.
ScrapeBegin ==
  /\ Serving
  /\ scrape.step \in {0, 4}
  /\ call[1].pc = "idle"
  /\ scrape' = [NoScrape EXCEPT !.step = 1, !.src = <<0>>]
  /\ UNCHANGED <<monitor, clock, call, lastPoll, mainVars, entry>>

\* the scrape samples its next gauge: the function set at lines 90-98
ScrapeCall ==
  /\ scrape.step \in 1..3
  /\ GetStatus(1, ScrapeOrder[scrape.step])

\* one scrape after the other, by one thread of the HTTP server
NextScrape ==
  \/ Start
  \/ ScrapeBegin
  \/ ScrapeCall
  \/ QueryDone(1)
  \/ ParseLineStep(1)
  \/ SetState(1)
  \/ SetCounts(1)
  \/ FailedQuery(1)
  \/ ReadMetric(1)
  \/ Return(1)

ScrapeSpec == Init /\ [][NextScrape]_vars

\* ------------------------------------------------------------- properties
CountVals == {None} \cup (0..MaxFiles)
Counts == <<num_syncing, num_downloading, num_uploading>>
AllAbsent == Counts = <<None, None, None>>
AllZero == Counts = <<0, 0, 0>>

CountFor(action) ==
  CASE action = "Syncing" -> num_syncing
    [] action = "Downloading" -> num_downloading
    [] action = "Uploading" -> num_uploading

HasLine(results, line) == \E i \in 1..Len(results) : results[i] = line

\* parse_output, called on call[1].results, has returned to its caller
Parsed == call[1].pc = "parsed"

\* the monitor as __init__ leaves it
FreshMon ==
  [status |-> EnumStates[1], num_syncing |-> None, num_downloading |-> None,
   num_uploading |-> None]

\* The step of a thread that runs query_status (line 106)
Polls(t) == call[t].pc = "idle" /\ call'[t].pc = "query"

\* C1: poll throttling: a get_status call made within min_poll_interval_sec
\* of the latest query_status runs no query_status of its own.
C1_PollThrottling ==
  [][\A t \in Threads :
       Polls(t) => (lastPoll = 0 \/ clock - lastPoll > min_poll_interval_sec)]_vars

\* C2: failure propagation: when get_status has queried and query_status gave
\* no result, get_status leaves the three counts absent and the metric
\* 'unknown'.
C2_FailurePropagation ==
  [][\A t \in Threads :
       (call[t].pc = "failed" /\ call'[t].pc # "failed")
         => (status_enum' = "unknown" /\ num_syncing' = None
             /\ num_downloading' = None /\ num_uploading' = None)]_vars

\* C3: after parse_output of the one-line report '<Action> N files' (with or
\* without trailing text) the metric is 'syncing', the count of that action
\* is N and the other two counts are absent.
C3_CountLine ==
  \A a \in ActionWords, n \in 0..MaxFiles, tr \in Trailers :
    (Parsed /\ call[1].results = <<CountLine(a, n, tr)>>)
      => /\ status_enum = "syncing"
         /\ CountFor(a) = n
         /\ \A b \in ActionWords \ {a} : CountFor(b) = None

\* C4: after parse_output of a report with the line 'Up to date' the metric
\* is 'up to date', whatever it was before.
C4_UpToDateStatus ==
  (Parsed /\ HasLine(call[1].results, UpToDateLine))
    => status_enum = "up to date"

\* C5: after parse_output of a report with a line 'Up to date' the three
\* counts are 0, whatever lines stand before or after it and whatever the
\* counts were before.
C5_UpToDateCounts ==
  (Parsed /\ HasLine(call[1].results, UpToDateLine)) => AllZero

\* a count line before 'Up to date', parsed when the counts were absent
C5_Witness ==
  /\ Parsed
  /\ Len(call[1].results) = 2
  /\ call[1].results[1] \in CountLines
  /\ call[1].results[2] = UpToDateLine
  /\ entry.num_uploading = None
  /\ AllZero

\* C6: after parse_output of a report with no recognized line (unrecognized
\* text, blank lines, or no line at all) the metric is 'unknown' and the
\* three counts are absent, whatever they were before.
C6_NothingRecognized ==
  (Parsed /\ \A i \in 1..Len(call[1].results) : call[1].results[i] \in OtherLines)
    => (status_enum = "unknown" /\ AllAbsent)

\* two unrecognized lines, parsed when the metric was 'syncing' and the
\* counts were 0
C6_Witness ==
  /\ Parsed
  /\ Len(call[1].results) = 2
  /\ \A i \in 1..2 : call[1].results[i] \in OtherLines
  /\ entry.status = "syncing"
  /\ entry.num_syncing = 0
  /\ status_enum = "unknown"
  /\ AllAbsent

\* C7: the parser is a function of the report alone: whatever the monitor
\* was before, the metric and the counts after parse_output are those the
\* same report gives on a fresh monitor.
C7_PureFunction ==
  Parsed => Mon = ParseOutput(FreshMon, call[1].results)

\* C8: idempotence: parse_output of the same report once more leaves the
\* metric and the three counts as the first call left them.
C8_Idempotent ==
  Parsed => ParseOutput(Mon, call[1].results) = Mon

\* a count line parsed when the counts were 0
C8_Witness ==
  /\ Parsed
  /\ call[1].results = <<CountLine("Syncing", MaxFiles, <<>>)>>
  /\ entry.num_syncing = 0
  /\ status_enum = "syncing"
  /\ ParseOutput(Mon, call[1].results) = Mon

\* what get_status reads for a metric
MetricOf(mon, metric) ==
  CASE metric = "num_syncing" -> mon.num_syncing
    [] metric = "num_downloading" -> mon.num_downloading
    [] metric = "num_uploading" -> mon.num_uploading

\* every cache a call can find in a serial order of the calls
CacheStates ==
  [status : {EnumStates[k] : k \in 1..Len(EnumStates)}, num_syncing : CountVals,
   num_downloading : CountVals, num_uploading : CountVals]

\* C9: get_status is atomic: what a call returns is what it returns when it
\* runs alone on its report, from some cache the calls before it left.
C9_AtomicReadOrRefresh ==
  \A t \in Threads :
    (call[t].pc = "returned" /\ call[t].results # <<>>)
      => \E m \in CacheStates :
           call[t].ret = MetricOf(ParseOutput(m, call[t].results), call[t].metric)

\* the innermost handler waits, in Event.set, for the Event's lock, which a
\* frame below it in the main thread holds: that frame runs again only when
\* the handler has returned
Stuck ==
  /\ handlers # <<>>
  /\ handlers[Len(handlers)] = "enter"
  /\ eventLock # "free"

\* C10: a signal delivered once the monitor has started leads to 'Stopped
\* gracefully' and exit 0: no signal ends the process in another way, and
\* none leaves the main thread unable ever to reach line 215.
C10_GracefulShutdown ==
  /\ (InWait \/ AfterWait \/ mainPc = "done") => proc \in {"running", "exit 0"}
  /\ ~Stuck

\* a thread is inside get_status or parse_output
InCall(t) == call[t].pc \notin {"idle", "returned", "raised", "parsed"}

\* C11: once a signal has set exit_event, no thread starts a query and the
\* metric and the counts change no more, and when the process then exits
\* no call is left unfinished.
C11_QuietAfterSignal ==
  [][/\ exit_event => \A t \in Threads : ~Polls(t)
     /\ exit_event => UNCHANGED <<status_enum, num_syncing, num_downloading,
                                  num_uploading>>
     /\ (proc = "running" /\ proc' = "exit 0")
          => \A t \in Threads : ~InCall(t)]_vars

\* C12: get_status and parse_output never raise: no call ends with an
\* exception, whatever query_status gave and whatever the report says.
C12_NeverRaises == \A t \in Threads : call[t].pc # "raised"

\* the action word a metric counts
ActionOf(metric) ==
  CASE metric = "num_syncing" -> "Syncing"
    [] metric = "num_downloading" -> "Downloading"
    [] metric = "num_uploading" -> "Uploading"

\* the report has a line '<Action> n files' for the action
Mentions(results, action, n) ==
  \E tr \in Trailers : HasLine(results, CountLine(action, n, tr))

\* C13: a get_status call returns 0 only when its report had 'Up to date'
\* or '<Action> 0 files' for its action; after a failed query, an unknown
\* report or a syncing report without a line for its action it returns the
\* absent value.
C13_AbsentIsNotZero ==
  LET c == call[1]
  IN (c.via = "get_status" /\ c.pc \in {"returned", "raised"})
       => /\ (c.pc = "returned" /\ c.ret = 0)
               => (HasLine(c.results, UpToDateLine)
                   \/ Mentions(c.results, ActionOf(c.metric), 0))
          /\ (/\ ~HasLine(c.results, UpToDateLine)
              /\ \A n \in 0..MaxFiles : ~Mentions(c.results, ActionOf(c.metric), n))
               => (c.pc = "returned" /\ c.ret = None)

\* the report resolves to Syncing
ResolvesToSyncing(results) ==
  /\ ~HasLine(results, UpToDateLine)
  /\ \E i \in 1..Len(results) :
       results[i] = SyncingDotsLine \/ results[i] \in CountLines

\* C14: after parse_output of a report that resolves to Syncing, the count
\* of every action no '<Action> N files' line of the report mentions is
\* absent, whatever the cache held for it before.
C14_UnmentionedAbsent ==
  (Parsed /\ ResolvesToSyncing(call[1].results))
    => \A a \in ActionWords :
         (\A n \in 0..MaxFiles : ~Mentions(call[1].results, a, n))
           => CountFor(a) = None

\* a count line for Syncing alone, parsed when the other counts were 0
C14_Witness ==
  /\ Parsed
  /\ call[1].results = <<CountLine("Syncing", MaxFiles, <<>>)>>
  /\ entry.num_downloading = 0
  /\ entry.num_uploading = 0
  /\ status_enum = "syncing"
  /\ num_downloading = None
  /\ num_uploading = None

\* the report without its unrecognized lines
RECURSIVE Strip(_)
Strip(results) ==
  IF results = <<>> THEN <<>>
  ELSE IF Head(results) \in OtherLines THEN Strip(Tail(results))
  ELSE <<Head(results)>> \o Strip(Tail(results))

\* C15: unrecognized lines change nothing: parse_output leaves the metric
\* and the counts as it leaves them on the same report without those
\* lines, wherever they stand.
C15_UnrecognizedIgnored ==
  Parsed => Mon = ParseOutput(entry, Strip(call[1].results))

\* 'Syncing...' between two unrecognized lines, parsed when the metric was
\* 'unknown'
C15_Witness ==
  /\ Parsed
  /\ Len(call[1].results) = 3
  /\ call[1].results[1] \in OtherLines
  /\ call[1].results[2] = SyncingDotsLine
  /\ call[1].results[3] \in OtherLines
  /\ entry.status = "unknown"
  /\ status_enum = "syncing"

\* C17: the metric always holds one of the five declared states; it is
\* never 'not running', a step that changes it writes 'syncing', 'up to
\* date' or 'unknown', and it never comes back to 'starting'.
C17_StatusValues ==
  /\ [](InStates(status_enum) /\ status_enum # "not running")
  /\ [][status_enum' # status_enum
          => status_enum' \in {"syncing", "up to date", "unknown"}]_vars
  /\ [][status_enum # "starting" => status_enum' # "starting"]_vars

\* a poll whose report had nothing recognized has written 'unknown' to the
\* metric
C17_Witness ==
  /\ status_enum = "unknown"
  /\ call[1].pc = "set_counts"
  /\ call[1].via = "get_status"
  /\ lastPoll # 0

\* C16: the status value and the three counts a scrape exports all come
\* from one and the same report.
C16_ScrapeSnapshot ==
  scrape.step = 4
    => \A i, j \in 1..Len(scrape.src) : scrape.src[i] = scrape.src[j]

====
